---- MODULE Spec2Model ----
(***************************************************************************)
(* Model of the kernel type compatibility layer of scx                     *)
(* (rust/scx_utils/src/compat.rs) and of the load / attach / run / restart *)
(* cycle of the scx_bpfland scheduler (scheds/rust/scx_bpfland/src/main.rs)*)
(*                                                                         *)
(* Representation notes.                                                   *)
(*  - Strings are sequences of bytes (naturals); 0 is the NUL byte.        *)
(*  - The BTF string section is one byte sequence; a name offset is an     *)
(*    index into it and a name is the NUL-terminated run that starts there.*)
(*  - TLC's integers are 32-bit signed, so the 32-bit info word of a type  *)
(*    record is held as its two 16-bit halves, and the 32-bit halves of an *)
(*    enumerator value are scaled to HalfBits bits (a u64 to 2*HalfBits).  *)
(*  - The memory that follows a type header holds its vlen entries and     *)
(*    then whatever comes next in the type section; mem models both.       *)
(***************************************************************************)
EXTENDS Integers, Sequences, FiniteSets, TLC

\* ------------------------------------------------------------------ bounds
\* Width, in bits, of one half of an enumerator value (32 in the code).
HalfBits == 3
\* Largest vlen of a type record of the enumerated kernels.
MaxVlen == 2
\* Largest number of type records of an enumerated kernel.
MaxTypes == 2
\* Number of threads, besides main, that call read_enum / struct_has_field.
NCallers == 1
\* Number of restarts main may be asked for before the policy stops asking.
MaxRestarts == 1

\* ------------------------------------------------------- libbpf constants
BTF_KIND_STRUCT == 4
BTF_KIND_ENUM == 6
BTF_KIND_ENUM64 == 19
\* A kind that is neither an enumeration nor a structure (a typedef).
BTF_KIND_OTHER == 8

\* ------------------------------------------------------------- byte strings
\* "sched_ext_ops", "exit_dump_len", "pid_type", "flags", abbreviated to
\* their first letters; a string with an interior NUL; a byte that is not UTF-8.
SchedExtOps == <<115>>
ExitDumpLen == <<101>>
PidType == <<112>>
Flags == <<102>>
WithNul == <<115, 0, 115>>
NotUtf8 == <<255>>

\* The string section: "" at 0, then the names, each NUL-terminated.
StrSec == <<0>> \o SchedExtOps \o <<0>> \o PidType \o <<0>> \o ExitDumpLen
            \o <<0>> \o Flags \o <<0>> \o NotUtf8 \o <<0>>
\* The offset of a name of the string section: it starts there, right after
\* a NUL, and its own NUL follows it.
OffsetOf(name) ==
    CHOOSE off \in 1 .. Len(StrSec) :
        /\ StrSec[off] = 0
        /\ off + Len(name) + 1 <= Len(StrSec)
        /\ SubSeq(StrSec, off + 1, off + Len(name)) = name
        /\ StrSec[off + Len(name) + 1] = 0
OffSchedExtOps == OffsetOf(SchedExtOps)
OffPidType == OffsetOf(PidType)
OffExitDumpLen == OffsetOf(ExitDumpLen)
OffFlags == OffsetOf(Flags)
OffNotUtf8 == OffsetOf(NotUtf8)
\* An offset past the end of the string section.
OffBad == Len(StrSec) + 1

Pow2(n) == 2 ^ n
Words == 0 .. (Pow2(HalfBits) - 1)

\* ------------------------------------------------------------- type records
\* struct btf_type.info as its halves: kind_flag is bit 31, kind bits 24..28,
\* vlen bits 0..15.
MkInfo(kflag, kind, vlen) == [hi |-> kflag * 32768 + kind * 256, lo |-> vlen]

\* One trailing entry: btf_enum {name_off, val}, btf_enum64 {name_off,
\* val_lo32, val_hi32} or btf_member {name_off, type, offset}; w1 and w2 are
\* the words after name_off.
MkEntry(off, w1, w2) == [name_off |-> off, w1 |-> w1, w2 |-> w2]

\* What lies behind the last entry of a record (the next header, read as an
\* entry): it carries a resolvable name, so a scan that ran past vlen would
\* see a member or enumerator called "flags".
Beyond == MkEntry(OffFlags, 5, 0)

MkType(off, kflag, kind, entries) ==
    [name_off |-> off, info |-> MkInfo(kflag, kind, Len(entries)),
     mem |-> entries \o <<Beyond>>]

RECURSIVE SeqsUpTo(_, _)
SeqsUpTo(S, n) ==
    IF n = 0 THEN {<<>>}
    ELSE LET shorter == SeqsUpTo(S, n - 1)
         IN  shorter \cup {Append(s, x) : s \in {q \in shorter : Len(q) = n - 1}, x \in S}

\* Entry lists whose i-th entry has value i: names vary, values tell the
\* positions apart.
RECURSIVE Numbered(_, _)
Numbered(offs, i) ==
    IF Len(offs) = 0 THEN <<>>
    ELSE <<MkEntry(Head(offs), i, 0)>> \o Numbered(Tail(offs), i + 1)

EntryOffs == {OffExitDumpLen, OffFlags, OffNotUtf8, OffBad}
EntryLists == {Numbered(offs, 1) : offs \in SeqsUpTo(EntryOffs, MaxVlen)}

TypeNameOffs == {OffSchedExtOps, OffPidType}
Kinds == {BTF_KIND_STRUCT, BTF_KIND_ENUM, BTF_KIND_OTHER, BTF_KIND_ENUM64}

\* kind_flag is set on enumerations (signed) and structures (bitfields).
FullTypes ==
    {MkType(off, IF k = BTF_KIND_OTHER THEN 0 ELSE 1, k, es) :
        off \in TypeNameOffs, k \in Kinds, es \in EntryLists}

SmallTypes ==
    {MkType(off, 0, k, es) :
        off \in TypeNameOffs, k \in {BTF_KIND_STRUCT, BTF_KIND_ENUM},
        es \in {<<>>, <<MkEntry(OffExitDumpLen, 1, 0)>>}}

RECURSIVE TypeSeqs(_)
TypeSeqs(n) ==
    IF n = 1 THEN {<<t>> : t \in FullTypes}
    ELSE LET shorter == TypeSeqs(n - 1)
         IN  shorter \cup {Append(s, t) : s \in {q \in shorter : Len(q) = n - 1},
                                          t \in SmallTypes}

MkBtf(types) == [types |-> types, strs |-> StrSec]

\* Kernels that differ in shape: names, kinds, entry lists, duplicates.
ShapeKernels == {MkBtf(ts) : ts \in TypeSeqs(MaxTypes)}

\* Kernels with one enumeration of one enumerator, over every value.
ValueKernels ==
    {MkBtf(<<MkType(OffPidType, 0, k, <<MkEntry(OffExitDumpLen, lo, hi)>>)>>) :
        k \in {BTF_KIND_ENUM, BTF_KIND_ENUM64}, lo \in Words, hi \in Words}

QueryKernels == ShapeKernels \cup ValueKernels

NoBtf == [types |-> <<>>, strs |-> <<>>]

\* ---------------------------------------------------------- compat.rs:31-57
btf_kind(t) == (t.info.hi \div 256) % 32

btf_vlen(t) == t.info.lo % 65536

btf_type_plus_1(t) == t.mem

btf_enum(t) == SubSeq(btf_type_plus_1(t), 1, btf_vlen(t))

btf_enum64(t) == SubSeq(btf_type_plus_1(t), 1, btf_vlen(t))

btf_members(t) == SubSeq(btf_type_plus_1(t), 1, btf_vlen(t))

\* ---------------------------------------------------------- libbpf lookups
\* Pointers into the string section and type ids are naturals; NULL and the
\* negative id of a failed lookup are -1 and -ENOENT.
NULL == 0 - 1

\* btf__name_by_offset: a pointer to the byte at the offset, NULL when the
\* offset lies outside the string section.  Offset o is byte o + 1 of strs.
btf__name_by_offset(btf, name_off) ==
    IF name_off < Len(btf.strs) THEN name_off + 1 ELSE NULL

\* CStr::from_ptr: the bytes from the pointer up to the first NUL.
RECURSIVE CStrFromPtr(_, _)
CStrFromPtr(strs, p) ==
    IF p > Len(strs) \/ strs[p] = 0 THEN <<>>
    ELSE <<strs[p]>> \o CStrFromPtr(strs, p + 1)

\* CStr::to_str: fails on bytes that are not UTF-8 (here: a lone byte >= 128).
IsUtf8(bytes) == \A i \in 1 .. Len(bytes) : bytes[i] < 128

\* compat.rs:59-67.  Ok(name) or one of two errors.
btf_name_str_by_offset(btf, name_off) ==
    LET n == btf__name_by_offset(btf, name_off)
    IN  IF n = NULL THEN [ok |-> FALSE, str |-> <<>>, err |-> "NameByOffsetNull"]
        ELSE LET bytes == CStrFromPtr(btf.strs, n)
             IN  IF IsUtf8(bytes) THEN [ok |-> TRUE, str |-> bytes, err |-> "-"]
                 ELSE [ok |-> FALSE, str |-> <<>>, err |-> "NameNotUtf8"]

\* CString::new(s): fails when s holds a NUL byte (the caller unwraps it).
CStringNew(s) ==
    IF \E i \in 1 .. Len(s) : s[i] = 0 THEN [ok |-> FALSE, c |-> <<>>]
    ELSE [ok |-> TRUE, c |-> s]

TypeName(btf, id) == CStrFromPtr(btf.strs, btf.types[id].name_off + 1)

\* btf__find_by_name: the smallest id (ids start at 1; 0 is void) whose
\* name equals the C string, -ENOENT when there is none.
btf__find_by_name(btf, cname) ==
    LET ids == {i \in 1 .. Len(btf.types) : TypeName(btf, i) = cname}
    IN  IF ids = {} THEN 0 - 2
        ELSE CHOOSE i \in ids : \A j \in ids : i <= j

\* The same lookup ignoring the kind filter (a plausible slip in struct_has_field).
find_by_name_any_kind(btf, cname, kind) == btf__find_by_name(btf, cname)

\* btf__find_by_name_kind: as btf__find_by_name, over the records of that
\* kind only.
btf__find_by_name_kind(btf, cname, kind) ==
    LET ids == {i \in 1 .. Len(btf.types) :
                    /\ btf_kind(btf.types[i]) = kind
                    /\ TypeName(btf, i) = cname}
    IN  IF ids = {} THEN 0 - 2
        ELSE CHOOSE i \in ids : \A j \in ids : i <= j

\* btf__type_by_id: the record, NULL for an id past the last one.
btf__type_by_id(btf, id) ==
    IF id >= 1 /\ id <= Len(btf.types) THEN id ELSE NULL

\* ------------------------------------------------------------ return values
\* Result<u64> / Result<bool>: tag "Ok" with val or flag, tag "Err" with the
\* message that was bailed, tag "Panic" when the call unwound instead of
\* returning, tag "None" while no call has finished.
NoRet == [tag |-> "None", val |-> 0, flag |-> FALSE, err |-> "-"]
OkVal(v) == [tag |-> "Ok", val |-> v, flag |-> FALSE, err |-> "-"]
OkFlag(b) == [tag |-> "Ok", val |-> 0, flag |-> b, err |-> "-"]
Err(msg) == [tag |-> "Err", val |-> 0, flag |-> FALSE, err |-> msg]
Panicked(msg) == [tag |-> "Panic", val |-> 0, flag |-> FALSE, err |-> msg]

\* e.val as u64, e.val being an i32: sign extension (compat.rs:88).
I32AsU64(w) ==
    IF w >= Pow2(HalfBits - 1) THEN w + (Pow2(2 * HalfBits) - Pow2(HalfBits)) ELSE w

\* a | b for naturals.
RECURSIVE BitOr(_, _)
BitOr(a, b) ==
    IF a = 0 THEN b
    ELSE IF b = 0 THEN a
    ELSE (IF a % 2 = 1 \/ b % 2 = 1 THEN 1 ELSE 0) + 2 * BitOr(a \div 2, b \div 2)

\* ((e.val_hi32 as u64) << 32) | (e.val_lo32) as u64, with the low half taken
\* through i32 (a plausible slip: the sign bit smears into the high half).
Enum64ValueSigned(e) ==
    BitOr((e.w2 * Pow2(HalfBits)) % Pow2(2 * HalfBits), I32AsU64(e.w1))

\* compat.rs:95
Enum64Value(e) ==
    BitOr((e.w2 * Pow2(HalfBits)) % Pow2(2 * HalfBits), e.w1)

\* compat.rs:88
EnumValue(e) == I32AsU64(e.w1)

\* ---------------------------------------------------------------- threads
\* main (main.rs:282) and the other threads of the process that use compat.rs.
MainThread == 0
Callers == 1 .. NCallers
Threads == {MainThread} \cup Callers

\* ------------------------------------------------------------------- state
VARIABLES
    once,          \* state of the Once behind lazy_static VMLINUX_BTF
    btf,           \* what VMLINUX_BTF holds (NoBtf until the load completed)
    load_calls,    \* how often btf__load_vmlinux_btf() was called
    thr,           \* per thread: the read_enum / struct_has_field call it is in
    hist,          \* the (query, returned value) pairs seen so far
    mpc,           \* where main is
    opts,          \* Opts.exit_dump_len, from the command line
    slice_ns,      \* skel.maps.rodata_data.slice_ns
    skel,          \* the skeleton main holds: "none", "open" or "loaded"
    struct_ops,    \* Scheduler.struct_ops: "None" or "Some" (the link)
    exit_dump_len, \* skel.struct_ops.bpfland_ops.exit_dump_len
    warnings,      \* warn! calls of scx_ops_load
    handed,        \* per skel.load() call: what scx_ops_load! made of the config
    log,           \* the load / attach / detach events so far, in order
    shutdown,      \* the AtomicBool the Ctrl-C handler sets
    uei,           \* exit info the BPF side left: "none", "unreg", "restart", "error"
    restarts       \* restarts the policy has asked for so far

vars == <<once, btf, load_calls, thr, hist, mpc, opts, slice_ns, skel, struct_ops,
          exit_dump_len, warnings, handed, log, shutdown, uei, restarts>>

calls == <<once, btf, load_calls, thr, hist>>
sched == <<mpc, opts, slice_ns, skel, struct_ops, exit_dump_len, warnings, handed, log,
           shutdown, uei, restarts>>

Idle == [pc |-> "idle", op |-> "-", type_name |-> <<>>, name |-> <<>>,
         tid |-> NULL, idx |-> 0, seen |-> {}, ret |-> NoRet]

\* The process runs until main returns or panics (main.rs:282-321).
ProcessAlive == mpc \notin {"exit_ok", "exit_err", "panicked"}

\* What a panic of thread t does to main's position: a panic on the main
\* thread ends the process, one on another thread ends that thread.
AfterPanic(t) == IF t = MainThread THEN "panicked" ELSE mpc

\* ------------------------------------------------------- compat.rs:69, 105
\* A thread enters read_enum or struct_has_field.
Enter(t, op, type_name, name) ==
    /\ thr[t].pc = "idle"
    /\ thr' = [thr EXCEPT ![t] = [Idle EXCEPT !.pc = "deref", !.op = op,
                                              !.type_name = type_name,
                                              !.name = name]]

\* ------------------------------------------------------ compat.rs:27-29, 70
\* *VMLINUX_BTF with the Once started by another thread entered as if the
\* value were there (a plausible slip: no barrier).
DerefNoBarrier(t) ==
    /\ ProcessAlive
    /\ thr[t].pc = "deref"
    /\ once \in {"incomplete", "running", "complete"}
    /\ IF once = "incomplete"
       THEN /\ once' = "running"
            /\ thr' = [thr EXCEPT ![t].pc = "init"]
       ELSE /\ once' = once
            /\ thr' = [thr EXCEPT ![t].pc = "find"]
    /\ UNCHANGED <<btf, load_calls, hist, sched>>

\* *VMLINUX_BTF without the cache: every call loads the type data again (a
\* plausible slip: load_vmlinux_btf() called in place of the static).
DerefReloads(t) ==
    /\ ProcessAlive
    /\ thr[t].pc = "deref"
    /\ once \in {"incomplete", "complete"}
    /\ once' = IF once = "incomplete" THEN "running" ELSE once
    /\ thr' = [thr EXCEPT ![t].pc = "init"]
    /\ UNCHANGED <<btf, load_calls, hist, sched>>

\* *VMLINUX_BTF: the first thread runs the initialiser, a thread that comes
\* while it runs waits (no step), one that comes after it takes the value;
\* a poisoned Once panics.
Deref(t) ==
    /\ ProcessAlive
    /\ thr[t].pc = "deref"
    /\ \/ /\ once = "incomplete"
          /\ once' = "running"
          /\ thr' = [thr EXCEPT ![t].pc = "init"]
          /\ mpc' = mpc
       \/ /\ once = "complete"
          /\ once' = once
          /\ thr' = [thr EXCEPT ![t].pc = "find"]
          /\ mpc' = mpc
       \/ /\ once = "poisoned"
          /\ once' = once
          /\ thr' = [thr EXCEPT ![t].pc = "panicked",
                                ![t].ret = Panicked("OncePoisoned")]
          /\ mpc' = AfterPanic(t)
    /\ UNCHANGED <<btf, load_calls, hist, opts, slice_ns, skel, struct_ops, exit_dump_len,
                   warnings, handed, log, shutdown, uei, restarts>>

\* compat.rs:19-25 with NULL handed back as an error value and the Once left
\* to be tried again (a plausible slip: a fallible initialiser).
LoadVmlinuxBtfRecovers(t, kernels) ==
    /\ ProcessAlive
    /\ thr[t].pc = "init"
    /\ load_calls' = load_calls + 1
    /\ \/ \E k \in kernels :
            /\ btf' = k
            /\ once' = "complete"
            /\ thr' = [thr EXCEPT ![t].pc = "find"]
       \/ /\ btf' = btf
          /\ once' = "incomplete"
          /\ thr' = [thr EXCEPT ![t].pc = "done",
                                ![t].ret = Err("LoadReturnedNull")]
    /\ UNCHANGED <<hist, sched>>

\* compat.rs:19-25 inside the Once: btf__load_vmlinux_btf() returns the
\* kernel's type data or NULL; NULL panics and poisons the Once.
LoadVmlinuxBtf(t, kernels) ==
    /\ ProcessAlive
    /\ thr[t].pc = "init"
    /\ load_calls' = load_calls + 1
    /\ \/ \E k \in kernels :
            /\ btf' = k
            /\ once' = "complete"
            /\ thr' = [thr EXCEPT ![t].pc = "find"]
            /\ mpc' = mpc
       \/ /\ btf' = btf
          /\ once' = "poisoned"
          /\ thr' = [thr EXCEPT ![t].pc = "panicked",
                                ![t].ret = Panicked("LoadReturnedNull")]
          /\ mpc' = AfterPanic(t)
    /\ UNCHANGED <<hist, opts, slice_ns, skel, struct_ops, exit_dump_len, warnings,
                   handed, log, shutdown, uei, restarts>>

\* ------------------------------------------------- compat.rs:72-84, 108-118
\* The record a thread has located (valid once tid >= 1).
Rec(t) == btf.types[thr[t].tid]

\* The lookup struct_has_field makes (compat.rs:109).
FindStruct(b, cname) == btf__find_by_name_kind(b, cname, BTF_KIND_STRUCT)

\* CString::new(type_name).unwrap(), the lookup by name, btf__type_by_id and,
\* in read_enum, the match on the kind.
Find(t) ==
    /\ ProcessAlive
    /\ thr[t].pc = "find"
    /\ LET c == CStringNew(thr[t].type_name)
           tid == IF thr[t].op = "read_enum"
                  THEN btf__find_by_name(btf, c.c)
                  ELSE FindStruct(btf, c.c)
           rec == btf__type_by_id(btf, tid)
       IN  IF ~c.ok
           THEN /\ thr' = [thr EXCEPT ![t].pc = "panicked",
                                      ![t].ret = Panicked("CStringNewUnwrap")]
                /\ mpc' = AfterPanic(t)
           ELSE /\ mpc' = mpc
                /\ IF tid < 0
                   THEN thr' = [thr EXCEPT ![t].pc = "done",
                                           ![t].ret = Err("TypeDoesntExist")]
                   ELSE IF rec = NULL
                   THEN thr' = [thr EXCEPT ![t].pc = "done",
                                           ![t].ret = Err("TypeByIdNull")]
                   ELSE IF /\ thr[t].op = "read_enum"
                           /\ btf_kind(btf.types[rec]) \notin {BTF_KIND_ENUM, BTF_KIND_ENUM64}
                   THEN thr' = [thr EXCEPT ![t].pc = "done", ![t].tid = rec,
                                           ![t].ret = Err("MemberDoesntExist")]
                   ELSE thr' = [thr EXCEPT ![t].pc = "scan", ![t].tid = rec]
    /\ UNCHANGED <<once, btf, load_calls, hist, opts, slice_ns, skel, struct_ops,
                   exit_dump_len, warnings, handed, log, shutdown, uei, restarts>>

\* The slice a scan walks, running one entry past the declared count (a
\* plausible slip in the length given to from_raw_parts).
SliceOnePast(t) ==
    SubSeq(btf_type_plus_1(Rec(t)), 1, btf_vlen(Rec(t)) + 1)

\* The slice a scan walks: btf_enum(t), btf_enum64(t) or btf_members(t).
Slice(t) ==
    IF thr[t].op = "struct_has_field" THEN btf_members(Rec(t))
    ELSE IF btf_kind(Rec(t)) = BTF_KIND_ENUM THEN btf_enum(Rec(t))
    ELSE btf_enum64(Rec(t))

\* What a match returns (compat.rs:88, 95, 122), with the enumeration-64
\* halves swapped (a plausible slip).
MatchValueSwapped(t, e) ==
    IF thr[t].op = "struct_has_field" THEN OkFlag(TRUE)
    ELSE IF btf_kind(Rec(t)) = BTF_KIND_ENUM THEN OkVal(EnumValue(e))
    ELSE OkVal(Enum64Value([e EXCEPT !.w1 = e.w2, !.w2 = e.w1]))

\* What a match returns (compat.rs:88, 95, 122).
MatchValue(t, e) ==
    IF thr[t].op = "struct_has_field" THEN OkFlag(TRUE)
    ELSE IF btf_kind(Rec(t)) = BTF_KIND_ENUM THEN OkVal(EnumValue(e))
    ELSE OkVal(Enum64Value(e))

\* What the end of the scan returns (compat.rs:102, 126).
NoMatchValue(t) ==
    IF thr[t].op = "struct_has_field" THEN OkFlag(FALSE)
    ELSE Err("MemberDoesntExist")

\* One turn of the scan that keeps the last match instead of returning at
\* the first one (a plausible slip).
ScanLastMatch(t) ==
    LET sl == Slice(t)
        i == thr[t].idx
        e == sl[i + 1]
        n == btf_name_str_by_offset(btf, e.name_off)
        hit == n.ok /\ n.str = thr[t].name
    IN  IF i >= Len(sl)
        THEN [thr[t] EXCEPT !.pc = "done",
                            !.ret = IF thr[t].ret.tag = "Ok" THEN thr[t].ret
                                    ELSE NoMatchValue(t)]
        ELSE [thr[t] EXCEPT !.seen = @ \cup {i}, !.idx = i + 1,
                            !.ret = IF hit THEN MatchValue(t, e) ELSE @]

\* One turn of the for loop (compat.rs:86-90, 93-97, 120-124): past the
\* last entry the call returns its no-match value; else the entry's name is
\* resolved (an error returns), compared, and a match returns.
ScanTurn(t) ==
    LET sl == Slice(t)
        i == thr[t].idx
        e == sl[i + 1]
        n == btf_name_str_by_offset(btf, e.name_off)
    IN  IF i >= Len(sl)
        THEN [thr[t] EXCEPT !.pc = "done", !.ret = NoMatchValue(t)]
        ELSE IF ~n.ok
        THEN [thr[t] EXCEPT !.pc = "done", !.seen = @ \cup {i}, !.ret = Err(n.err)]
        ELSE IF n.str = thr[t].name
        THEN [thr[t] EXCEPT !.pc = "done", !.seen = @ \cup {i},
                            !.ret = MatchValue(t, e)]
        ELSE [thr[t] EXCEPT !.seen = @ \cup {i}, !.idx = i + 1]

ScanStep(t) ==
    /\ ProcessAlive
    /\ thr[t].pc = "scan"
    /\ thr' = [thr EXCEPT ![t] = ScanTurn(t)]
    /\ UNCHANGED <<once, btf, load_calls, hist, sched>>

\* ------------------------------------------------------------- the callers
Query(t) == [op |-> thr[t].op, type_name |-> thr[t].type_name, name |-> thr[t].name]

Observed(t) == [q |-> Query(t), ret |-> thr[t].ret]

\* A caller gets its result and is free to call again.
CallerReturn(t) ==
    /\ ProcessAlive
    /\ t \in Callers
    /\ thr[t].pc = "done"
    /\ hist' = hist \cup {Observed(t)}
    /\ thr' = [thr EXCEPT ![t] = Idle]
    /\ UNCHANGED <<once, btf, load_calls, sched>>

Ops == {"read_enum", "struct_has_field"}

\* A caller calls read_enum or struct_has_field.
CallerEnter(t, names) ==
    /\ ProcessAlive
    /\ t \in Callers
    /\ \E op \in Ops, type_name \in names.types, name \in names.members :
            Enter(t, op, type_name, name)
    /\ UNCHANGED <<once, btf, load_calls, hist, sched>>

\* ------------------------------------------------- specification of a call
\* One thread of a process other than the scheduler (a test, compat.rs:168)
\* makes one call against any of the enumerated kernels.
QueryNames == [types |-> {SchedExtOps, PidType, WithNul},
               members |-> {ExitDumpLen, Flags}]

FirstCaller == CHOOSE c \in Callers : \A d \in Callers : c <= d

InitQuery ==
    /\ once = "incomplete"
    /\ btf = NoBtf
    /\ load_calls = 0
    /\ thr = [t \in Threads |-> Idle]
    /\ hist = {}
    /\ mpc = "start"
    /\ opts = 0
    /\ slice_ns = 0
    /\ skel = "none"
    /\ struct_ops = "None"
    /\ exit_dump_len = 0
    /\ warnings = 0
    /\ handed = <<>>
    /\ log = <<>>
    /\ shutdown = FALSE
    /\ uei = "none"
    /\ restarts = 0

QueryEnter(t) ==
    /\ hist = {}
    /\ load_calls = 0
    /\ CallerEnter(t, QueryNames)

QueryReturn(t) ==
    /\ hist = {}
    /\ CallerReturn(t)

NextQuery ==
    \/ QueryEnter(FirstCaller)
    \/ Deref(FirstCaller)
    \/ LoadVmlinuxBtf(FirstCaller, QueryKernels)
    \/ Find(FirstCaller)
    \/ ScanStep(FirstCaller)
    \/ QueryReturn(FirstCaller)

SpecQuery == InitQuery /\ [][NextQuery]_vars

\* ------------------------------------------------------------ the scheduler
\* Kernels the scheduler may run on: sched_ext_ops with and without
\* exit_dump_len, no sched_ext_ops at all, an enumeration of that name in
\* front of the structure, and a structure whose first member name does not
\* resolve.
SchedKernels ==
    {MkBtf(<<MkType(OffSchedExtOps, 1, BTF_KIND_STRUCT,
                    <<MkEntry(OffFlags, 1, 0), MkEntry(OffExitDumpLen, 2, 0)>>)>>),
     MkBtf(<<MkType(OffSchedExtOps, 1, BTF_KIND_STRUCT, <<MkEntry(OffFlags, 1, 0)>>)>>),
     MkBtf(<<MkType(OffPidType, 1, BTF_KIND_ENUM, <<MkEntry(OffExitDumpLen, 1, 0)>>)>>),
     MkBtf(<<MkType(OffSchedExtOps, 1, BTF_KIND_ENUM, <<MkEntry(OffExitDumpLen, 3, 0)>>),
             MkType(OffSchedExtOps, 1, BTF_KIND_STRUCT, <<MkEntry(OffFlags, 1, 0)>>)>>),
     MkBtf(<<MkType(OffSchedExtOps, 1, BTF_KIND_STRUCT,
                    <<MkEntry(OffBad, 1, 0), MkEntry(OffExitDumpLen, 2, 0)>>)>>)}

\* What the other threads of the scheduler process ask.
SchedNames == [types |-> {SchedExtOps}, members |-> {ExitDumpLen}]

\* --exit-dump-len values: the default and a request.
OptValues == {0, 42}

\* --slice-us: the default (main.rs:64).
SliceUs == 5000

Init ==
    /\ once = "incomplete"
    /\ btf = NoBtf
    /\ load_calls = 0
    /\ thr = [t \in Threads |-> Idle]
    /\ hist = {}
    /\ mpc = "start"
    /\ opts \in OptValues
    /\ slice_ns = 0
    /\ skel = "none"
    /\ struct_ops = "None"
    /\ exit_dump_len = 0
    /\ warnings = 0
    /\ handed = <<>>
    /\ log = <<>>
    /\ shutdown = FALSE
    /\ uei = "none"
    /\ restarts = 0

\* main.rs:282-312: options, logger, Ctrl-C handler; --version or a failed
\* setup ends main before the loop.
MStart ==
    /\ mpc = "start"
    /\ mpc' \in {"init", "exit_ok", "exit_err"}
    /\ UNCHANGED <<calls, opts, slice_ns, skel, struct_ops, exit_dump_len, warnings,
                   handed, log, shutdown, uei, restarts>>

\* main.rs:306-308: the Ctrl-C handler, on its own thread.
CtrlC ==
    /\ ProcessAlive
    /\ mpc # "start"
    /\ ~shutdown
    /\ shutdown' = TRUE
    /\ UNCHANGED <<calls, mpc, opts, slice_ns, skel, struct_ops, exit_dump_len, warnings,
                   handed, log, uei, restarts>>

\* main.rs:165-199: Scheduler::init up to the load: the SMT probe or
\* scx_ops_open! may fail; else the skeleton is open and takes the option.
MInit ==
    /\ mpc = "init"
    /\ \/ /\ mpc' = "load"
          /\ skel' = "open"
          /\ exit_dump_len' = opts
          /\ slice_ns' = SliceUs * 1000
          /\ uei' = "none"
       \/ /\ mpc' = "exit_err"
          /\ UNCHANGED <<skel, exit_dump_len, slice_ns, uei>>
    /\ UNCHANGED <<calls, opts, struct_ops, warnings, handed, log, shutdown, restarts>>

\* compat.rs:141-144: scx_ops_load! calls struct_has_field.
MLoadProbe ==
    /\ mpc = "load"
    /\ mpc' = "probe"
    /\ Enter(MainThread, "struct_has_field", SchedExtOps, ExitDumpLen)
    /\ UNCHANGED <<once, btf, load_calls, hist, opts, slice_ns, skel, struct_ops,
                   exit_dump_len, warnings, handed, log, shutdown, uei, restarts>>

\* The adaptation with the test on the caller's value left out (a plausible
\* slip: warn whenever the field is missing).
AdaptNoValueTest(has_field, len) ==
    IF ~has_field THEN [len |-> 0, warn |-> 1] ELSE [len |-> len, warn |-> 0]

\* The adaptation that warns but keeps the value (a plausible slip).
AdaptKeepsValue(has_field, len) ==
    IF ~has_field /\ len # 0 THEN [len |-> len, warn |-> 1]
    ELSE [len |-> len, warn |-> 0]

\* compat.rs:145-148: the value exit_dump_len takes and the warnings made.
Adapt(has_field, len) ==
    IF ~has_field /\ len # 0 THEN [len |-> 0, warn |-> 1]
    ELSE [len |-> len, warn |-> 0]

\* What one skel.load() call was given (the adapted exit_dump_len and the
\* rest of the skeleton's settings) and gave.
Handed(has_field, asked, a, loader_ok) ==
    [has_field |-> has_field, asked |-> asked, given |-> a.len,
     warned |-> a.warn, slice_ns |-> slice_ns, loader_ok |-> loader_ok]

\* compat.rs:144-150 with an error of struct_has_field taken for a missing
\* field (a plausible slip: unwrap_or(false) in place of `?`).
MLoadAdaptErrIsMissing ==
    /\ mpc = "probe"
    /\ thr[MainThread].pc = "done"
    /\ hist' = hist \cup {Observed(MainThread)}
    /\ thr' = [thr EXCEPT ![MainThread] = Idle]
    /\ LET has_field == thr[MainThread].ret.tag = "Ok" /\ thr[MainThread].ret.flag
           a == Adapt(has_field, exit_dump_len)
       IN  /\ exit_dump_len' = a.len
           /\ warnings' = warnings + a.warn
           /\ \E loader_ok \in BOOLEAN :
                 /\ handed' = Append(handed, Handed(has_field, exit_dump_len, a, loader_ok))
                 /\ IF loader_ok
                    THEN /\ skel' = "loaded"
                         /\ mpc' = "attach"
                         /\ log' = Append(log, "load")
                    ELSE /\ skel' = "none"
                         /\ mpc' = "exit_err"
                         /\ log' = Append(log, "load_failed")
    /\ UNCHANGED <<once, btf, load_calls, opts, slice_ns, struct_ops, shutdown, uei, restarts>>

\* compat.rs:144-150, main.rs:202: struct_has_field(..)? returns its error
\* from Scheduler::init; else the field is adapted and skel.load() is called,
\* which succeeds or fails.  An error return drops the skeleton.
MLoadAdapt ==
    /\ mpc = "probe"
    /\ thr[MainThread].pc = "done"
    /\ hist' = hist \cup {Observed(MainThread)}
    /\ thr' = [thr EXCEPT ![MainThread] = Idle]
    /\ IF thr[MainThread].ret.tag = "Err"
       THEN /\ mpc' = "exit_err"
            /\ skel' = "none"
            /\ log' = Append(log, "load_failed")
            /\ UNCHANGED <<exit_dump_len, warnings, handed>>
       ELSE LET has_field == thr[MainThread].ret.flag
                a == Adapt(has_field, exit_dump_len)
            IN  /\ exit_dump_len' = a.len
                /\ warnings' = warnings + a.warn
                /\ \E loader_ok \in BOOLEAN :
                      /\ handed' = Append(handed, Handed(has_field, exit_dump_len, a, loader_ok))
                      /\ IF loader_ok
                         THEN /\ skel' = "loaded"
                              /\ mpc' = "attach"
                              /\ log' = Append(log, "load")
                         ELSE /\ skel' = "none"
                              /\ mpc' = "exit_err"
                              /\ log' = Append(log, "load_failed")
    /\ UNCHANGED <<once, btf, load_calls, opts, slice_ns, struct_ops, shutdown, uei, restarts>>

\* compat.rs:157-165, main.rs:203 with the error of attach_struct_ops()
\* dropped and init going on to run without a link (a plausible slip: .ok()
\* in place of `?`).
MAttachIgnoresError ==
    /\ mpc = "attach"
    /\ \/ /\ struct_ops' = "Some"
          /\ log' = Append(log, "attach")
       \/ /\ struct_ops' = struct_ops
          /\ log' = Append(log, "attach_failed")
    /\ mpc' = "run"
    /\ UNCHANGED <<calls, opts, slice_ns, skel, exit_dump_len, warnings, handed, shutdown,
                   uei, restarts>>

\* compat.rs:157-165, main.rs:203-218: attach_struct_ops() gives the link or
\* fails; the error return drops the skeleton.
MAttach ==
    /\ mpc = "attach"
    /\ \/ /\ struct_ops' = "Some"
          /\ skel' = skel
          /\ mpc' = "run"
          /\ log' = Append(log, "attach")
       \/ /\ struct_ops' = struct_ops
          /\ skel' = "none"
          /\ mpc' = "exit_err"
          /\ log' = Append(log, "attach_failed")
    /\ UNCHANGED <<calls, opts, slice_ns, exit_dump_len, warnings, handed, shutdown, uei, restarts>>

\* The BPF scheduler exits on its own while attached: with an error, or
\* asking for a restart (as often as MaxRestarts allows), or plainly.
BpfExit ==
    /\ mpc = "run"
    /\ struct_ops = "Some"
    /\ uei = "none"
    /\ \/ uei' \in {"error", "done"}
       \/ /\ restarts < MaxRestarts
          /\ uei' = "restart"
    /\ UNCHANGED <<calls, mpc, opts, slice_ns, skel, struct_ops, exit_dump_len, warnings,
                   handed, log, shutdown, restarts>>

\* main.rs:260-262
exited == uei # "none"

\* main.rs:265-268: one turn of the run loop.
MRunTurn ==
    /\ mpc = "run"
    /\ ~shutdown /\ ~exited
    /\ UNCHANGED vars

\* main.rs:265-272 without self.struct_ops.take(): run() returns with the
\* link still in the Scheduler (a plausible slip).
MRunExitKeepsLink ==
    /\ mpc = "run"
    /\ shutdown \/ exited
    /\ mpc' = "report"
    /\ UNCHANGED <<calls, opts, slice_ns, skel, struct_ops, exit_dump_len, warnings, handed,
                   log, shutdown, uei, restarts>>

\* main.rs:265-271 with the loop testing only exited() (a plausible slip: the
\* shutdown flag left out of the condition).
MRunExitIgnoresShutdown ==
    /\ mpc = "run"
    /\ exited
    /\ struct_ops' = "None"
    /\ log' = Append(log, "detach")
    /\ uei' = uei
    /\ mpc' = "report"
    /\ UNCHANGED <<calls, opts, slice_ns, skel, exit_dump_len, warnings, handed,
                   shutdown, restarts>>

\* main.rs:265-271: the loop ends and run() drops the link; the kernel then
\* records the unregistration unless the scheduler had exited before.
MRunExit ==
    /\ mpc = "run"
    /\ shutdown \/ exited
    /\ struct_ops' = "None"
    /\ log' = Append(log, "detach")
    /\ uei' = IF uei = "none" THEN "unreg" ELSE uei
    /\ mpc' = "report"
    /\ UNCHANGED <<calls, opts, slice_ns, skel, exit_dump_len, warnings, handed, shutdown, restarts>>

\* uei_report!: an error exit is returned as Err.
uei_report_fails == uei = "error"

\* UserExitInfo::should_restart
should_restart == uei = "restart"

\* main.rs:313-318 with the restart re-using the loaded skeleton instead of
\* building a new Scheduler (a plausible slip).
MReportReattach ==
    /\ mpc = "report"
    /\ IF uei_report_fails
       THEN /\ mpc' = "exit_err"
            /\ skel' = "none"
            /\ restarts' = restarts
       ELSE IF should_restart
       THEN /\ mpc' = "attach"
            /\ skel' = skel
            /\ restarts' = restarts + 1
       ELSE /\ mpc' = "exit_ok"
            /\ skel' = "none"
            /\ restarts' = restarts
    /\ UNCHANGED <<calls, opts, slice_ns, struct_ops, exit_dump_len, warnings, handed, log,
                   shutdown, uei>>

\* main.rs:272, 313-320: run() returns the exit info; main returns its error,
\* or starts over, or leaves the loop.  Each way drops the Scheduler.
MReport ==
    /\ mpc = "report"
    /\ skel' = "none"
    /\ IF uei_report_fails
       THEN /\ mpc' = "exit_err"
            /\ restarts' = restarts
       ELSE IF should_restart
       THEN /\ mpc' = "init"
            /\ restarts' = restarts + 1
       ELSE /\ mpc' = "exit_ok"
            /\ restarts' = restarts
    /\ UNCHANGED <<calls, opts, slice_ns, struct_ops, exit_dump_len, warnings, handed, log,
                   shutdown, uei>>

SchedCallerEnter(t) == CallerEnter(t, SchedNames)

SchedLoadVmlinuxBtf(t) == LoadVmlinuxBtf(t, SchedKernels)

Next ==
    \/ MStart
    \/ CtrlC
    \/ MInit
    \/ MLoadProbe
    \/ MLoadAdapt
    \/ MAttach
    \/ BpfExit
    \/ MRunTurn
    \/ MRunExit
    \/ MReport
    \/ \E t \in Threads :
        \/ SchedCallerEnter(t)
        \/ Deref(t)
        \/ SchedLoadVmlinuxBtf(t)
        \/ Find(t)
        \/ ScanStep(t)
        \/ CallerReturn(t)

Spec == Init /\ [][Next]_vars

\* The threads of the process are scheduled: a step of main, or of a thread
\* inside read_enum / struct_has_field, that stays possible is taken.  What
\* the user (Ctrl-C), the BPF scheduler (its exit) and the other threads
\* (new calls) do is not forced.
Fairness ==
    /\ WF_vars(MStart)
    /\ WF_vars(MInit)
    /\ WF_vars(MLoadProbe)
    /\ WF_vars(MLoadAdapt)
    /\ WF_vars(MAttach)
    /\ WF_vars(MRunExit)
    /\ WF_vars(MReport)
    /\ \A t \in Threads :
          /\ WF_vars(Deref(t))
          /\ WF_vars(SchedLoadVmlinuxBtf(t))
          /\ WF_vars(Find(t))
          /\ WF_vars(ScanStep(t))

SpecLive == Spec /\ Fairness

\* ===================================================================== claims

\* The position in the protocol that the events so far leave: the last
\* operation that succeeded decides it.
ProtoState ==
    LET done == SelectSeq(log, LAMBDA e : e \in {"load", "attach", "detach"})
    IN  IF done = <<>> THEN "Unloaded"
        ELSE IF done[Len(done)] = "load" THEN "Loaded"
        ELSE IF done[Len(done)] = "attach" THEN "Attached"
        ELSE "Unloaded"

PrevEvent(i) == IF i = 1 THEN "none" ELSE log[i - 1]

\* C1: the protocol moves only Unloaded -> (load) -> Loaded -> (attach) ->
\* Attached -> (detach) -> Unloaded: a load is tried only at the start or
\* right after a detach, an attach only right after the successful load of the
\* same cycle, a detach only right after a successful attach; the link is
\* held exactly in Attached, over a loaded skeleton.
C1_LifecycleOrder ==
    /\ \A i \in 1 .. Len(log) :
        /\ log[i] \in {"load", "load_failed"} => PrevEvent(i) \in {"none", "detach"}
        /\ log[i] \in {"attach", "attach_failed"} => PrevEvent(i) = "load"
        /\ log[i] = "detach" => PrevEvent(i) = "attach"
    /\ (struct_ops = "Some") <=> (ProtoState = "Attached")
    /\ ProtoState = "Attached" => skel = "loaded"
    /\ (ProtoState = "Loaded" /\ ProcessAlive) => (skel = "loaded" /\ mpc = "attach")

\* A second cycle has reached Attached after a full first one.
C1_Witness ==
    /\ Len(log) = 5
    /\ log[3] = "detach"
    /\ log[5] = "attach"
    /\ struct_ops = "Some"

LoadEvents == SelectSeq(log, LAMBDA e : e \in {"load", "load_failed"})

MainQuery == [op |-> "struct_has_field", type_name |-> SchedExtOps, name |-> ExitDumpLen]

\* C2: when struct_has_field("sched_ext_ops", "exit_dump_len") is false and
\* the caller's value is not 0, load sets the field to 0, warns once and still
\* calls the external loader, whose result is load's result; when the field
\* is there, the loader sees the caller's value.  Only an error of
\* struct_has_field keeps load from reaching the loader.
C2_LoadAdaptation ==
    /\ \A i \in 1 .. Len(handed) :
        LET h == handed[i]
        IN  /\ h.asked = opts
            /\ (~h.has_field /\ h.asked # 0) => (h.given = 0 /\ h.warned = 1)
            /\ h.has_field => (h.given = h.asked /\ h.warned = 0)
            /\ i <= Len(LoadEvents)
            /\ LoadEvents[i] = IF h.loader_ok THEN "load" ELSE "load_failed"
    /\ Len(LoadEvents) > Len(handed) =>
            \E o \in hist : o.q = MainQuery /\ o.ret.tag = "Err"
    /\ mpc \in {"attach", "run", "report"} =>
            exit_dump_len = handed[Len(handed)].given

\* The field is missing, 42 was asked for, 0 was handed over with one warning
\* and the load succeeded.
C2_Witness ==
    /\ Len(handed) >= 1
    /\ ~handed[1].has_field
    /\ handed[1].asked = 42
    /\ handed[1].given = 0
    /\ handed[1].warned = 1
    /\ handed[1].loader_ok
    /\ ProtoState = "Loaded"

\* ------------------------------------------------ what a kernel really holds
\* Stated without the lookups of the code: by the records and their names.
IdsNamed(name) == {i \in 1 .. Len(btf.types) : TypeName(btf, i) = name}

StructsNamed(name) ==
    {i \in IdsNamed(name) : btf_kind(btf.types[i]) = BTF_KIND_STRUCT}

Lowest(ids) == CHOOSE i \in ids : \A j \in ids : i <= j

\* The entries a record declares, by index 0 .. vlen - 1.
Declared(rec) == 0 .. (btf_vlen(rec) - 1)

\* Entry i of a record bears this name.
Named(rec, i, name) ==
    LET n == btf_name_str_by_offset(btf, rec.mem[i + 1].name_off)
    IN  n.ok /\ n.str = name

Matches(rec, name) == {i \in Declared(rec) : Named(rec, i, name)}

IsEnumKind(rec) == btf_kind(rec) \in {BTF_KIND_ENUM, BTF_KIND_ENUM64}

\* The call of thread t against the loaded type data has ended, by a return
\* or by a panic.
Finished(t) == once = "complete" /\ thr[t].pc \in {"done", "panicked"}

\* C3: struct_has_field returns Ok(true) iff a structure of that name exists
\* and has a member of that name, Ok(false) iff the structure exists and has
\* no such member, and an error iff no structure of that name exists.  (The
\* structure is the first of that name.)
C3_ThreeOutcomes ==
    \A t \in Callers :
        (thr[t].op = "struct_has_field" /\ Finished(t)) =>
            LET S == StructsNamed(thr[t].type_name)
                has == S # {} /\ Matches(btf.types[Lowest(S)], thr[t].name) # {}
            IN  /\ (thr[t].ret = OkFlag(TRUE)) <=> has
                /\ (thr[t].ret = OkFlag(FALSE)) <=> (S # {} /\ ~has)
                /\ (thr[t].ret.tag = "Err") <=> (S = {})

\* C4: read_enum of a type name that names no type returns the NotFound
\* error; it does not panic and reads no type record.
C4_NoSuchTypeNotFound ==
    \A t \in Callers :
        (thr[t].op = "read_enum" /\ Finished(t) /\ IdsNamed(thr[t].type_name) = {}) =>
            /\ thr[t].ret = Err("TypeDoesntExist")
            /\ thr[t].tid = NULL
            /\ thr[t].seen = {}

\* C5: with the type record located, read_enum returns a value iff the
\* record is an enumeration (32 or 64) and one of its enumerators bears the
\* member name; in every other case it returns the NotFound error.
C5_ValueIffEnumMember ==
    \A t \in Callers :
        (thr[t].op = "read_enum" /\ Finished(t) /\ thr[t].tid # NULL) =>
            LET found == IsEnumKind(Rec(t)) /\ Matches(Rec(t), thr[t].name) # {}
            IN  /\ (thr[t].ret.tag = "Ok") <=> found
                /\ ~found => thr[t].ret = Err("MemberDoesntExist")

\* C6: read_enum examines the enumerators in declaration order, none after
\* the first whose name equals the member name, and a value it returns is
\* the value of that first one.
C6_FirstMatchWins ==
    \A t \in Callers :
        (thr[t].op = "read_enum" /\ thr[t].tid # NULL) =>
            LET M == Matches(Rec(t), thr[t].name)
            IN  /\ thr[t].seen = 0 .. (Cardinality(thr[t].seen) - 1)
                /\ \A i \in thr[t].seen : \A j \in M : j >= i
                /\ thr[t].ret.tag = "Ok" =>
                      /\ M # {}
                      /\ thr[t].seen = 0 .. Lowest(M)
                      /\ LET e == Rec(t).mem[Lowest(M) + 1]
                         IN  (e.w2 = 0 /\ e.w1 < Pow2(HalfBits - 1)) => thr[t].ret.val = e.w1

\* Two enumerators bear the member name and the call has returned the
\* first one's value.
C6_Witness ==
    \E t \in Callers :
        /\ thr[t].op = "read_enum"
        /\ thr[t].pc = "done"
        /\ thr[t].tid # NULL
        /\ Matches(Rec(t), thr[t].name) = {0, 1}
        /\ thr[t].ret = OkVal(1)
        /\ thr[t].seen = {0}

\* C7: for an enumeration-64 the returned value is val_hi32 * 2^32 +
\* val_lo32 (2^HalfBits here), for all halves.
C7_Enum64Value ==
    \A t \in Callers :
        (/\ thr[t].op = "read_enum"
         /\ thr[t].pc = "done"
         /\ thr[t].ret.tag = "Ok"
         /\ btf_kind(Rec(t)) = BTF_KIND_ENUM64) =>
            LET e == Rec(t).mem[Lowest(Matches(Rec(t), thr[t].name)) + 1]
            IN  thr[t].ret.val = e.w2 * Pow2(HalfBits) + e.w1

\* An enumeration-64 value with the top bit of the low half set and a high
\* half that is not 0 has been returned.
C7_Witness ==
    \E t \in Callers :
        /\ thr[t].op = "read_enum"
        /\ thr[t].pc = "done"
        /\ thr[t].ret.tag = "Ok"
        /\ btf_kind(Rec(t)) = BTF_KIND_ENUM64
        /\ Rec(t).mem[1].w1 >= Pow2(HalfBits - 1)
        /\ Rec(t).mem[1].w2 = Pow2(HalfBits) - 1

\* C8: struct_has_field looks its type up among the structures only: a
\* record it locates is the first structure of that name; with no structure
\* of that name, even if another kind bears it, the result is the NotFound
\* error; and an answer comes from that structure's members.
C8_StructKindOnly ==
    \A t \in Callers :
        thr[t].op = "struct_has_field" =>
            LET S == StructsNamed(thr[t].type_name)
            IN  /\ thr[t].tid # NULL => (S # {} /\ thr[t].tid = Lowest(S))
                /\ (thr[t].pc = "done" /\ S = {}) =>
                      (thr[t].ret = Err("TypeDoesntExist") /\ thr[t].tid = NULL)
                /\ (thr[t].pc = "done" /\ thr[t].ret.tag = "Ok") =>
                      /\ S # {}
                      /\ thr[t].ret.flag <=>
                            (Matches(btf.types[Lowest(S)], thr[t].name) # {})

\* An enumeration and, behind it, a structure bear the name; the structure
\* was located and its member found, which the enumeration does not have.
C8_Witness ==
    \E t \in Callers :
        /\ thr[t].op = "struct_has_field"
        /\ thr[t].pc = "done"
        /\ Len(btf.types) = 2
        /\ IdsNamed(thr[t].type_name) = {1, 2}
        /\ btf_kind(btf.types[1]) = BTF_KIND_ENUM
        /\ thr[t].tid = 2
        /\ Matches(btf.types[1], thr[t].name) = {}
        /\ thr[t].ret = OkFlag(TRUE)

\* C9: the type data is loaded once whatever the callers and their
\* interleaving; a thread that comes while the load runs waits for it; a
\* lookup or scan only ever runs against the completed load.
C9_OneInit ==
    /\ load_calls <= 1
    /\ Cardinality({t \in Threads : thr[t].pc = "init"}) <= 1
    /\ (once = "running") <=> (\E t \in Threads : thr[t].pc = "init")
    /\ once = "incomplete" => load_calls = 0
    /\ once = "complete" => (load_calls = 1 /\ btf \in SchedKernels)
    /\ \A t \in Threads :
        /\ thr[t].pc \in {"find", "scan", "done"} => once = "complete"
        /\ (thr[t].pc = "deref" /\ once = "running") => ~ENABLED Deref(t)

\* One thread runs the load while another has arrived and waits.
C9_Witness ==
    \E t, u \in Threads :
        /\ t # u
        /\ thr[t].pc = "init"
        /\ thr[u].pc = "deref"
        /\ once = "running"
        /\ load_calls = 0

\* The answers seen so far, and those about to be returned, agree per query.
SameAnswers ==
    /\ \A a, b \in hist : a.q = b.q => a.ret = b.ret
    /\ \A t \in Threads :
        thr[t].pc = "done" => \A a \in hist : a.q = Query(t) => a.ret = thr[t].ret

\* C10: once loaded, the type data never changes, whatever step is taken,
\* and the same query always gets the same answer.
C10_Immutable ==
    /\ [][once = "complete" => btf' = btf]_vars
    /\ []SameAnswers

\* A query that was answered before is about to be answered again.
C10_Witness ==
    \E t \in Threads :
        /\ thr[t].pc = "done"
        /\ \E a \in hist : a.q = Query(t) /\ a.ret = thr[t].ret

\* The load was tried and left no type data.
LoadFailed == load_calls >= 1 /\ btf = NoBtf

\* C11: when btf__load_vmlinux_btf() returns NULL the failure is fatal: the
\* thread that ran the load unwinds without a result or an error value, the
\* load is not tried again, and no call made then or later gets to a lookup
\* or returns anything: it panics, and on main that ends the process.
C11_LoadFailureFatal ==
    LoadFailed =>
        /\ once = "poisoned"
        /\ load_calls = 1
        /\ hist = {}
        /\ \E t \in Threads : thr[t].ret = Panicked("LoadReturnedNull")
        /\ \A t \in Threads :
            /\ thr[t].pc \in {"idle", "deref", "panicked"}
            /\ thr[t].ret.tag \in {"None", "Panic"}
            /\ thr[t].tid = NULL
            /\ thr[t].pc = "panicked" =>
                  thr[t].ret \in {Panicked("LoadReturnedNull"), Panicked("OncePoisoned")}
        /\ thr[MainThread].pc = "panicked" => mpc = "panicked"
        /\ skel # "loaded" /\ struct_ops = "None" /\ handed = <<>>

\* The load failed on one thread and a call made later, on main, panicked.
C11_Witness ==
    /\ LoadFailed
    /\ \E t \in Callers : thr[t].ret = Panicked("LoadReturnedNull")
    /\ thr[MainThread].ret = Panicked("OncePoisoned")
    /\ mpc = "panicked"

\* The scan of thread t has read an entry whose name does not resolve: the
\* offset lies outside the string section or the bytes are not UTF-8.
MalformedSeen(t) ==
    /\ thr[t].tid # NULL
    /\ \E i \in thr[t].seen :
          ~btf_name_str_by_offset(btf, Rec(t).mem[i + 1].name_off).ok

\* C12: a name lookup that fails during a scan of read_enum or
\* struct_has_field is fatal: the call does not return, so the caller gets
\* no error value it could take for NotFound or replace by a default (as
\* read_enum(..).unwrap_or(0) of SCX_OPS_SWITCH_PARTIAL would).
C12_MalformedNameFatal ==
    \A t \in Callers :
        (Finished(t) /\ MalformedSeen(t)) =>
            /\ thr[t].pc = "panicked"
            /\ thr[t].ret.tag = "Panic"

\* C13: once struct_has_field has located the structure, the member scan
\* does not fail: the call returns Ok(true) or Ok(false), never an error.
C13_MemberScanNeverFails ==
    \A t \in Callers :
        (thr[t].op = "struct_has_field" /\ Finished(t) /\ thr[t].tid # NULL) =>
            thr[t].ret \in {OkFlag(TRUE), OkFlag(FALSE)}

\* C14: a failure of the external loader makes load return an error: attach
\* is not tried in that cycle and main ends with a failure; a failure of the
\* external attach is returned as an error: no link is held, the state is not
\* Attached, and no further cycle is started.
C14_FailurePropagation ==
    /\ \A i \in 1 .. Len(log) :
          log[i] \in {"load_failed", "attach_failed"} =>
              /\ i = Len(log)
              /\ mpc = "exit_err"
              /\ struct_ops = "None"
              /\ skel = "none"
              /\ ProtoState # "Attached"
    /\ \A i \in 1 .. Len(handed) :
          ~handed[i].loader_ok =>
              /\ i = Len(handed)
              /\ log # <<>>
              /\ log[Len(log)] = "load_failed"
              /\ mpc = "exit_err"

\* After one full cycle and a restart, the attach of the second cycle has
\* failed.
C14_Witness ==
    /\ log = <<"load", "attach", "detach", "load", "attach_failed">>
    /\ mpc = "exit_err"
    /\ restarts = 1

\* How often an event has happened among the first n of the log.
CountIn(e, n) == Cardinality({i \in 1 .. n : log[i] = e})

\* The attachments made and not yet released.
Held == CountIn("attach", Len(log)) - CountIn("detach", Len(log))

\* C15: over the restart loop at most one attachment is held at a time: the
\* link the Scheduler holds is the only one, the attachment of a cycle is
\* released before the load of the next cycle begins, and when run has
\* returned no attachment is held.
C15_OneAttachment ==
    /\ Held \in {0, 1}
    /\ (struct_ops = "Some") <=> (Held = 1)
    /\ \A i \in 1 .. Len(log) :
          log[i] \in {"load", "load_failed"} =>
              CountIn("attach", i) = CountIn("detach", i)
    /\ mpc \in {"report", "init", "load", "probe", "attach", "exit_ok", "exit_err"} =>
          (Held = 0 /\ struct_ops = "None")

\* The second cycle loads after the first cycle's attachment was released.
C15_Witness ==
    /\ Len(log) = 4
    /\ log[2] = "attach"
    /\ log[3] = "detach"
    /\ log[4] = "load"
    /\ Held = 0
    /\ struct_ops = "None"

\* C16: for an enumeration-32, read_enum returns the stored 32-bit value of
\* the matched enumerator, zero-extended: the upper half of the result is 0
\* and the lower half is the stored pattern, also with the top bit set
\* (HalfBits stands for 32).
C16_Enum32ZeroExtended ==
    \A t \in Callers :
        (/\ thr[t].op = "read_enum"
         /\ thr[t].pc = "done"
         /\ thr[t].ret.tag = "Ok"
         /\ btf_kind(Rec(t)) = BTF_KIND_ENUM) =>
            LET e == Rec(t).mem[Lowest(Matches(Rec(t), thr[t].name)) + 1]
            IN  /\ thr[t].ret.val \div Pow2(HalfBits) = 0
                /\ thr[t].ret.val % Pow2(HalfBits) = e.w1

\* main has had an error from struct_has_field in scx_ops_load!.
ProbeFailed ==
    /\ log # <<>>
    /\ \E o \in hist : o.q = MainQuery /\ o.ret.tag = "Err"

\* C17: when struct_has_field returns an error in load (no structure
\* sched_ext_ops in the running kernel, say), load returns that error at
\* once: the external loader is not called, no warning is made, and
\* exit_dump_len keeps the caller's value.
C17_ProbeErrorReturned ==
    ProbeFailed =>
        /\ handed = <<>>
        /\ warnings = 0
        /\ exit_dump_len = opts
        /\ log = <<"load_failed">>
        /\ mpc = "exit_err"
        /\ skel = "none"
        /\ struct_ops = "None"

\* The kernel has no structure sched_ext_ops, 42 was asked for, and load has
\* returned the error.
C17_Witness ==
    /\ ProbeFailed
    /\ StructsNamed(SchedExtOps) = {}
    /\ opts = 42
    /\ exit_dump_len = 42
    /\ mpc = "exit_err"

RECURSIVE Warned(_)
Warned(n) == IF n = 0 THEN 0 ELSE Warned(n - 1) + handed[n].warned

\* C18: the adaptation of load changes nothing of the configuration but
\* exit_dump_len, and it changes exit_dump_len and warns only when the field
\* is missing from the kernel structure and the caller's value is not 0; with
\* the value 0 or the field present the loader gets the configuration as the
\* caller made it and no warning is recorded.
C18_AdaptationFrame ==
    /\ \A i \in 1 .. Len(handed) :
        LET h == handed[i]
        IN  /\ h.asked = opts
            /\ h.slice_ns = SliceUs * 1000
            /\ (h.given # h.asked \/ h.warned # 0) => (~h.has_field /\ h.asked # 0)
            /\ (h.has_field \/ h.asked = 0) => (h.given = h.asked /\ h.warned = 0)
    /\ warnings = Warned(Len(handed))
    /\ mpc \in {"attach", "run", "report"} =>
          /\ slice_ns = SliceUs * 1000
          /\ exit_dump_len = handed[Len(handed)].given

\* The field is missing and the caller's value is 0: the loader got 0 and
\* nothing was warned.
C18_Witness ==
    /\ Len(handed) >= 1
    /\ ~handed[1].has_field
    /\ handed[1].asked = 0
    /\ handed[1].given = 0
    /\ handed[1].warned = 0
    /\ handed[1].slice_ns = SliceUs * 1000
    /\ warnings = 0
    /\ mpc = "attach"

\* main has returned or panicked, holding no attachment and no loaded
\* skeleton.
Terminated == ~ProcessAlive /\ struct_ops = "None" /\ skel # "loaded"

\* C19: the shutdown flag stays set once set; with it set the run loop does
\* not take another turn but exits and releases the attachment, and the
\* process ends, unloaded; main starts a further cycle only when the exit
\* info of the run that ended asks for a restart.
C19_ShutdownLiveness ==
    /\ [][shutdown => shutdown']_vars
    /\ []((shutdown /\ mpc = "run") => (~ENABLED MRunTurn /\ ENABLED MRunExit))
    /\ [][(mpc = "run" /\ mpc' # "run") => (mpc' = "report" /\ struct_ops' = "None")]_vars
    /\ [][(mpc # "init" /\ mpc' = "init") =>
            (mpc = "start" \/ (mpc = "report" /\ should_restart /\ ~uei_report_fails))]_vars
    /\ (shutdown ~> Terminated)

\* Ctrl-C came while the scheduler was attached and running; the run ended,
\* the link was released and main returned.
C19_Witness ==
    /\ shutdown
    /\ mpc = "exit_ok"
    /\ uei = "unreg"
    /\ log # <<>>
    /\ log[Len(log)] = "detach"
    /\ struct_ops = "None"

\* The entries a record was built with: its memory without what lies behind.
EntriesOf(rec) == Len(rec.mem) - 1

\* C20: a scan of read_enum or struct_has_field reads only the trailing
\* entries 0 .. vlen - 1 of the record it located, vlen being the low 16 bits
\* of the info word and the kind its bits 24..28 (kind_flag, bit 31, set or
\* not); no entry at vlen or behind is read, and the scan ends after at most
\* vlen entries.
C20_BoundedScan ==
    \A t \in Callers :
        thr[t].tid # NULL =>
            LET rec == Rec(t)
                vlen == btf_vlen(rec)
            IN  /\ \E kflag \in {0, 1}, k \in Kinds :
                      /\ rec.info = MkInfo(kflag, k, EntriesOf(rec))
                      /\ btf_kind(rec) = k
                /\ vlen = EntriesOf(rec)
                /\ thr[t].seen \subseteq 0 .. (vlen - 1)
                /\ thr[t].seen = 0 .. (Cardinality(thr[t].seen) - 1)
                /\ thr[t].idx <= vlen
                /\ thr[t].pc = "scan" => thr[t].idx = Cardinality(thr[t].seen)
                /\ (thr[t].pc = "scan" /\ thr[t].idx = vlen) =>
                      ScanTurn(t).pc = "done"

\* A scan over a record with kind_flag set has read all its entries, as many
\* as records have at most, found no match and ended.
C20_Witness ==
    \E t \in Callers :
        /\ thr[t].tid # NULL
        /\ thr[t].pc = "done"
        /\ Rec(t).info.hi >= 32768
        /\ btf_vlen(Rec(t)) = MaxVlen
        /\ thr[t].seen = 0 .. (MaxVlen - 1)
        /\ thr[t].ret \in {OkFlag(FALSE), Err("MemberDoesntExist")}

====
